---- MODULE Spec2Model ----
(***************************************************************************)
(* A model of the Medium SDK for Go: the client (type Medium of medium.go),  *)
(* its request pipeline (encode, send, normalise the response) and the       *)
(* token exchange, together with the earlier client (type medium of the      *)
(* files that hold request/parseResponse and acquireAccessToken apart).      *)
(*                                                                           *)
(* JSON texts are modelled by the values they denote, tagged by kind; a      *)
(* byte sequence that is no JSON document has the tag "invalid".  Go values  *)
(* of the target types are functions from JSON field names to field values.  *)
(***************************************************************************)
EXTENDS Integers, Sequences, FiniteSets, TLC

VARIABLES
    m,        \* the client: the fields of the struct Medium
    last,     \* the call that has just returned, or Idle
    granted   \* the bearer token the caller expects the client to hold

vars == <<m, last, granted>>

-----------------------------------------------------------------------------
(* Program constants                                                         *)

\* medium.go:58
host == "https://api.medium.com"
\* medium.go:60, in seconds
defaultTimeout == 5
\* medium.go:62
defaultCode == -1
\* medium.go:67-69
formatJSON == "json"
formatForm == "form"
formatFile == "file"
\* net/http's StatusOK and StatusMultipleChoices, as used at medium.go:430
StatusOK == 200
StatusMultipleChoices == 300

-----------------------------------------------------------------------------
(* Bounds of the model                                                       *)

\* longest errors list a response body carries
MaxErrors == 2
\* longest publication / contributor list a response body carries
MaxItems == 2

-----------------------------------------------------------------------------
(* JSON documents                                                            *)

JInvalid(s) == [t |-> "invalid", v |-> s]
JNull == [t |-> "null"]
JBool(b) == [t |-> "bool", v |-> b]
JStr(s) == [t |-> "str", v |-> s]
\* a number is kept as its literal text
JNum(lit) == [t |-> "num", v |-> lit]
JArr(s) == [t |-> "arr", v |-> s]
JObj(f) == [t |-> "obj", v |-> f]

\* The number literals that occur in the bodies of the model.
NumLits ==
    {"-1", "0", "400", "401", "6003", "1500", "1.5e3", "9007199254740992",
     "9007199254740993"}

\* strconv.ParseInt as encoding/json uses it for an integer target: a literal
\* with a fraction or an exponent is no integer.
IsIntLit(lit) ==
    lit \in {"-1", "0", "400", "401", "6003", "1500", "9007199254740992",
             "9007199254740993"}

\* The value of an integer literal that fits the checker's integers (type int).
ParseInt(lit) ==
    CASE lit = "-1" -> -1
      [] lit = "0" -> 0
      [] lit = "400" -> 400
      [] lit = "401" -> 401
      [] lit = "6003" -> 6003
      [] lit = "1500" -> 1500

\* strconv.ParseFloat(lit, 64) followed by json's float64 encoder
\* (strconv.AppendFloat 'f', shortest form): what a number becomes on its way
\* through an interface{} value.  2^53 + 1 is not a float64.
Float64Text(lit) ==
    CASE lit = "1.5e3" -> "1500"
      [] lit = "9007199254740993" -> "9007199254740992"
      [] OTHER -> lit

-----------------------------------------------------------------------------
(* Go types of medium.go and their JSON field names                          *)

Fields(T) ==
    CASE T = "User" ->
           [id |-> "string", username |-> "string", name |-> "string",
            url |-> "string", imageUrl |-> "string"]
      [] T = "Publication" ->
           [id |-> "string", name |-> "string", description |-> "string",
            url |-> "string", imageUrl |-> "string"]
      [] T = "Contributor" ->
           [publicationID |-> "string", userID |-> "string", role |-> "string"]
      [] T = "Publications" -> [data |-> "[]Publication"]
      [] T = "Contributors" -> [data |-> "[]Contributor"]
      [] T = "Post" ->
           [id |-> "string", title |-> "string", authorId |-> "string",
            tags |-> "[]string", url |-> "string", canonicalUrl |-> "string",
            publishStatus |-> "string", license |-> "string",
            licenseUrl |-> "string"]
      [] T = "Image" -> [url |-> "string", md5 |-> "string"]
      [] T = "AccessToken" ->
           [token_type |-> "string", access_token |-> "string",
            refresh_token |-> "string", scope |-> "[]string",
            expires_at |-> "int64"]
      [] T = "Error" -> [message |-> "string", code |-> "int"]
      [] T = "envelope" -> [data |-> "interface", errors |-> "[]Error"]

StructTypes ==
    {"User", "Publication", "Contributor", "Publications", "Contributors",
     "Post", "Image", "AccessToken", "Error", "envelope"}

IsSlice(ty) == ty \in {"[]string", "[]Publication", "[]Contributor", "[]Error"}

ElemType(ty) ==
    CASE ty = "[]string" -> "string"
      [] ty = "[]Publication" -> "Publication"
      [] ty = "[]Contributor" -> "Contributor"
      [] ty = "[]Error" -> "Error"

\* A nil interface{} value.
GoNil == [g |-> "nil"]

RECURSIVE Zero(_)
\* The zero value of a Go type.  An int64 is kept as its decimal text (the
\* values of interest exceed the checker's integers); a nil slice is <<>>.
Zero(ty) ==
    CASE ty = "string" -> ""
      [] ty = "int" -> 0
      [] ty = "int64" -> "0"
      [] ty = "interface" -> GoNil
      [] IsSlice(ty) -> <<>>
      [] OTHER -> [f \in DOMAIN Fields(ty) |-> Zero(Fields(ty)[f])]

-----------------------------------------------------------------------------
(* encoding/json                                                             *)

RECURSIVE ToInterface(_)
\* json.Unmarshal into an interface{}: every number becomes a float64, kept
\* here as the text json.Marshal prints for it.
ToInterface(v) ==
    CASE v.t = "null" -> GoNil
      [] v.t = "bool" -> [g |-> "bool", v |-> v.v]
      [] v.t = "str" -> [g |-> "string", v |-> v.v]
      [] v.t = "num" -> [g |-> "float64", v |-> Float64Text(v.v)]
      [] v.t = "arr" ->
           [g |-> "slice", v |-> [i \in DOMAIN v.v |-> ToInterface(v.v[i])]]
      [] v.t = "obj" ->
           [g |-> "map", v |-> [k \in DOMAIN v.v |-> ToInterface(v.v[k])]]

RECURSIVE Marshal(_)
\* json.Marshal of a value held in an interface{} (medium.go:432).
Marshal(x) ==
    CASE x.g = "nil" -> JNull
      [] x.g = "bool" -> JBool(x.v)
      [] x.g = "string" -> JStr(x.v)
      [] x.g = "float64" -> JNum(x.v)
      [] x.g = "slice" -> JArr([i \in DOMAIN x.v |-> Marshal(x.v[i])])
      [] x.g = "map" -> JObj([k \in DOMAIN x.v |-> Marshal(x.v[k])])

\* The outcome of decoding the parts ds of an array or an object: the values
\* decoded, and whether any part met a type error.
Collect(ds) ==
    [val |-> [i \in DOMAIN ds |-> ds[i].val], err |-> \E i \in DOMAIN ds : ds[i].err]

RECURSIVE Decode(_, _, _)
\* The decoder of json.Unmarshal for a value of Go type ty that holds cur:
\* the new value, and whether a type error was met.  A JSON null leaves a
\* string, number or struct as it is; a mismatched field keeps its value and
\* the decoder goes on with the fields that follow; unknown keys are skipped.
Decode(ty, v, cur) ==
    IF v.t = "null"
    THEN [val |-> IF IsSlice(ty) \/ ty = "interface" THEN Zero(ty) ELSE cur,
          err |-> FALSE]
    ELSE CASE ty = "string" ->
                IF v.t = "str" THEN [val |-> v.v, err |-> FALSE]
                ELSE [val |-> cur, err |-> TRUE]
           [] ty = "int" ->
                IF v.t = "num" /\ IsIntLit(v.v)
                THEN [val |-> ParseInt(v.v), err |-> FALSE]
                ELSE [val |-> cur, err |-> TRUE]
           [] ty = "int64" ->
                IF v.t = "num" /\ IsIntLit(v.v)
                THEN [val |-> v.v, err |-> FALSE]
                ELSE [val |-> cur, err |-> TRUE]
           [] ty = "interface" -> [val |-> ToInterface(v), err |-> FALSE]
           [] IsSlice(ty) ->
                IF v.t = "arr"
                THEN Collect([i \in DOMAIN v.v |->
                                Decode(ElemType(ty), v.v[i], Zero(ElemType(ty)))])
                ELSE [val |-> cur, err |-> TRUE]
           [] OTHER ->
                IF v.t = "obj"
                THEN Collect([f \in DOMAIN Fields(ty) |->
                                IF f \in DOMAIN v.v
                                THEN Decode(Fields(ty)[f], v.v[f], cur[f])
                                ELSE [val |-> cur[f], err |-> FALSE]])
                ELSE [val |-> cur, err |-> TRUE]

\* The errors of this package and of encoding/json.
NilErr == [kind |-> "nil"]
Error(message, code) == [kind |-> "Error", Message |-> message, Code |-> code]
SyntaxError == [kind |-> "json.SyntaxError"]
UnmarshalTypeError == [kind |-> "json.UnmarshalTypeError"]
\* a run-time panic: the call does not return
IndexOutOfRange == [kind |-> "panic", what |-> "index out of range"]

\* No error at all: the call waits in client.Do for a server that never
\* answers, and does not return.
Blocked == [kind |-> "blocked"]

\* What Unmarshal returns for the decoder's outcome d.
DecodeResult(d) ==
    [val |-> d.val, err |-> IF d.err THEN UnmarshalTypeError ELSE NilErr]

\* json.Unmarshal(c, &x) for x of type ty: the syntax is checked first and
\* nothing is stored for a text that is no JSON document; a type error is
\* reported after the rest has been stored.
Unmarshal(c, ty, cur) ==
    IF c.t = "invalid" THEN [val |-> cur, err |-> SyntaxError]
    ELSE DecodeResult(Decode(ty, c, cur))

\* json.Unmarshal(c, &result), result an interface{} that holds a pointer to
\* a struct of type ty (medium.go:434): the decoder follows the pointer,
\* except for a JSON null, which it stores in the interface itself.
UnmarshalResult(c, ty, cur) == Unmarshal(c, ty, cur)

-----------------------------------------------------------------------------
(* Payload encoders                                                          *)

\* The payloads a clientRequest carries in its data field (an interface{}).
NoData == [d |-> "nil"]
StringData(s) == [d |-> "string", s |-> s]
PostData(o) == [d |-> "CreatePostOptions", o |-> o]
UploadData(o) == [d |-> "UploadOptions", o |-> o]
\* a value json.Marshal rejects (a func, a chan)
FuncData == [d |-> "func"]

\* json.Marshal of CreatePostOptions (medium.go:78-87): UserID has the tag
\* "-", the last four fields have omitempty.
MarshalPost(o) ==
    JObj([k \in {"title", "content", "contentFormat"}
                \cup (IF o.Tags # <<>> THEN {"tags"} ELSE {})
                \cup (IF o.CanonicalURL # "" THEN {"canonicalUrl"} ELSE {})
                \cup (IF o.PublishStatus # "" THEN {"publishStatus"} ELSE {})
                \cup (IF o.License # "" THEN {"license"} ELSE {}) |->
                CASE k = "title" -> JStr(o.Title)
                  [] k = "content" -> JStr(o.Content)
                  [] k = "contentFormat" -> JStr(o.ContentFormat)
                  [] k = "tags" -> JArr([i \in DOMAIN o.Tags |-> JStr(o.Tags[i])])
                  [] k = "canonicalUrl" -> JStr(o.CanonicalURL)
                  [] k = "publishStatus" -> JStr(o.PublishStatus)
                  [] k = "license" -> JStr(o.License)])

\* json.Marshal returns no error for the payload (a func or a chan is an
\* unsupported type).
Marshalable(data) == data.d # "func"

\* json.Marshal(cr.data) for a payload it supports.  The unexported
\* fieldName of UploadOptions is not encoded.
MarshalData(data) ==
    CASE data.d = "nil" -> JNull
      [] data.d = "string" -> JStr(data.s)
      [] data.d = "CreatePostOptions" -> MarshalPost(data.o)
      [] data.d = "UploadOptions" ->
           JObj([FilePath |-> JStr(data.o.FilePath),
                 ContentType |-> JStr(data.o.ContentType)])

NoBody == [t |-> "none"]

\* medium.go:317-323
generateJSONRequestData(c, cr, io) ==
    IF ~Marshalable(cr.data)
    THEN [body |-> NoBody, ct |-> "",
          err |-> Error("Could not marshal JSON: unsupported type", defaultCode),
          events |-> <<>>]
    ELSE [body |-> MarshalData(cr.data), ct |-> "application/json",
          err |-> NilErr, events |-> <<>>]

\* medium.go:326-337 ([]byte payloads are not told apart from strings)
generateFormRequestData(c, cr, io) ==
    IF cr.data.d = "string"
    THEN [body |-> [t |-> "form", v |-> cr.data.s],
          ct |-> "application/x-www-form-urlencoded", err |-> NilErr,
          events |-> <<>>]
    ELSE [body |-> NoBody, ct |-> "",
          err |-> Error("Invalid data passed for form request", defaultCode),
          events |-> <<>>]

\* filepath.Base for the paths of the model
Base(path) ==
    CASE path = "/fake/file.png" -> "file.png"
      [] path = "/fake/q\"uote.png" -> "q\"uote.png"
      [] OTHER -> path

\* medium.go:487-492: backslash and double quote get a backslash
escapeQuotes(str) ==
    CASE str = "q\"uote.png" -> "q\\\"uote.png"
      [] OTHER -> str

\* fs.Open(name) (medium.go:345, 481): fakeFS of medium_test.go:22 opens
\* anything; on disk the outcome is the environment's (io.open).
Open(fs, name, io) == IF fs = "fakeFS" THEN "ok" ELSE io.open

\* medium.go:340-369.  The deferred file.Close() runs on every return that
\* follows a successful Open.  CreatePart writes to a bytes.Buffer and cannot
\* fail; io.Copy fails when reading the file does (io.read).
generateFileRequestData(c, cr, io) ==
    IF cr.data.d # "UploadOptions"
    THEN [body |-> NoBody, ct |-> "",
          err |-> Error("Invalid data passed for file upload", defaultCode),
          events |-> <<>>]
    ELSE IF Open(c.fs, cr.data.o.FilePath, io) # "ok"
         THEN [body |-> NoBody, ct |-> "",
               err |-> Error("Could not open file: no such file", defaultCode),
               events |-> <<"open failed">>]
         ELSE IF c.fs # "fakeFS" /\ io.read # "ok"
         THEN [body |-> NoBody, ct |-> "",
               err |-> Error("Could not copy data: read error", defaultCode),
               events |-> <<"open", "close">>]
         ELSE [body |-> [t |-> "multipart",
                         name |-> escapeQuotes(cr.data.o.fieldName),
                         filename |-> escapeQuotes(Base(cr.data.o.FilePath)),
                         partType |-> cr.data.o.ContentType,
                         content |-> "contents"],
               ct |-> "multipart/form-data; boundary=b",
               err |-> NilErr,
               events |-> <<"open", "close">>]

-----------------------------------------------------------------------------
(* The request pipeline of medium.go                                         *)

\* medium.go:464-469
clientRequest(method, path, data, format) ==
    [method |-> method, path |-> path, data |-> data, format |-> format]

\* An identifier that is no valid URL escape: url.Parse rejects a URL that
\* holds it, and http.NewRequest fails.
BadID == "%zz"

\* The paths of the operations built with BadID.
BadPaths ==
    {"/v1/" \o BadID, "/v1/users/" \o BadID \o "/publications",
     "/v1/publications/" \o BadID \o "/contributors",
     "/v1/users/" \o BadID \o "/posts"}

\* http.NewRequest(method, url, body) succeeds (medium.go:396): the method is
\* a token and the URL parses.
NewRequestOK(method, hostv, path) ==
    method \in {"GET", "POST"} /\ hostv = host /\ path \notin BadPaths

NoReq == [method |-> "none"]

\* A format that is none of the three encoded as JSON instead of refused.
requestEncode_JSONByDefault(c, cr, io) ==
    CASE cr.format = formatForm -> generateFormRequestData(c, cr, io)
      [] cr.format = formatFile -> generateFileRequestData(c, cr, io)
      [] OTHER -> generateJSONRequestData(c, cr, io)

\* medium.go:373-393: the format defaults to JSON, the generator is chosen by
\* the format and run.
requestEncode(c, cr, io) ==
    CASE cr.format \in {"", formatJSON} -> generateJSONRequestData(c, cr, io)
      [] cr.format = formatForm -> generateFormRequestData(c, cr, io)
      [] cr.format = formatFile -> generateFileRequestData(c, cr, io)
      [] OTHER ->
           [body |-> NoBody, ct |-> "",
            err |-> Error("Unknown format: " \o cr.format, defaultCode),
            events |-> <<>>]

\* A request stamped with the scheme alone: the token is left out.
requestBuild_NoToken(c, cr, enc) ==
    [method |-> cr.method,
     url |-> c.Host \o cr.path,
     ContentType |-> enc.ct,
     Accept |-> "application/json",
     AcceptCharset |-> "utf-8",
     Authorization |-> "Bearer",
     body |-> enc.body]

\* medium.go:396-404: the request and its headers.
requestBuild(c, cr, enc) ==
    [method |-> cr.method,
     url |-> c.Host \o cr.path,
     ContentType |-> enc.ct,
     Accept |-> "application/json",
     AcceptCharset |-> "utf-8",
     Authorization |-> "Bearer " \o c.AccessToken,
     body |-> enc.body]

\* The status branch reporting the last entry of the errors list instead of
\* the first.
requestStatus_LastError(c, status, ty, cur, env) ==
    IF StatusOK <= status /\ status < StatusMultipleChoices
    THEN UnmarshalResult(IF env.data # GoNil THEN Marshal(env.data) ELSE c, ty, cur)
    ELSE IF Len(env.errors) = 0
    THEN [err |-> IndexOutOfRange, val |-> cur]
    ELSE [err |-> Error(env.errors[Len(env.errors)].message,
                        env.errors[Len(env.errors)].code),
          val |-> cur]

\* medium.go:430-437, given the outcome e of parsing the body c as an
\* envelope without error: the status decides.  A 2xx payload is decoded into
\* the result (the data field re-marshalled when it is not nil, the raw body
\* otherwise) and the error of that decoding is returned as it is; any other
\* status returns the first entry of the errors list, and indexing an empty
\* list panics.
requestStatus(c, status, ty, cur, env) ==
    IF StatusOK <= status /\ status < StatusMultipleChoices
    THEN UnmarshalResult(IF env.data # GoNil THEN Marshal(env.data) ELSE c, ty, cur)
    ELSE IF Len(env.errors) = 0
    THEN [err |-> IndexOutOfRange, val |-> cur]
    ELSE [err |-> Error(env.errors[1].message, env.errors[1].code), val |-> cur]

\* The envelope's parse error handed back as encoding/json made it.
requestEnvelope_RawError(c, status, ty, cur, e) ==
    IF e.err # NilErr
    THEN [err |-> e.err, val |-> cur]
    ELSE requestStatus(c, status, ty, cur, e.val)

\* medium.go:425-428, given the outcome e of json.Unmarshal(c, &env).
requestEnvelope(c, status, ty, cur, e) ==
    IF e.err # NilErr
    THEN [err |-> Error("Could not parse response: " \o e.err.kind, defaultCode),
          val |-> cur]
    ELSE requestStatus(c, status, ty, cur, e.val)

\* The status looked at first: a body that comes with a status outside
\* [200, 300) goes to the status branch without having been parsed.
requestParse_StatusFirst(c, status, ty, cur) ==
    IF StatusOK <= status /\ status < StatusMultipleChoices
    THEN requestEnvelope(c, status, ty, cur, Unmarshal(c, "envelope", Zero("envelope")))
    ELSE requestStatus(c, status, ty, cur, Zero("envelope"))

\* medium.go:425-437: the response body c is parsed as an envelope before the
\* status is looked at.
requestParse(c, status, ty, cur) ==
    requestEnvelope(c, status, ty, cur, Unmarshal(c, "envelope", Zero("envelope")))

\* The request sent a second time when the first attempt fails in transport.
requestSend_Retry(c, cr, ty, cur, io, enc) ==
    IF enc.err # NilErr
    THEN [err |-> enc.err, val |-> cur, req |-> NoReq, events |-> enc.events]
    ELSE IF ~NewRequestOK(cr.method, c.Host, cr.path)
    THEN [err |-> Error("Could not create request: invalid URL", defaultCode),
          val |-> cur, req |-> NoReq, events |-> enc.events]
    ELSE IF io.net.k = "fail"
    THEN [err |-> Error("Failed to make request: " \o io.net.cause, defaultCode),
          val |-> cur, req |-> requestBuild(c, cr, enc),
          events |-> enc.events \o <<"Do", "Do">>]
    ELSE IF io.net.k = "readfail"
    THEN [err |-> Error("Could not read response: " \o io.net.cause, defaultCode),
          val |-> cur, req |-> requestBuild(c, cr, enc),
          events |-> enc.events \o <<"Do">>]
    ELSE IF io.net.k = "hang"
    THEN [err |-> Blocked, val |-> cur, req |-> requestBuild(c, cr, enc),
          events |-> enc.events \o <<"Do">>]
    ELSE [req |-> requestBuild(c, cr, enc), events |-> enc.events \o <<"Do">>]
         @@ requestParse(io.net.body, io.net.status, ty, cur)

\* medium.go:395-437, given the encoder's outcome enc.  The request is built
\* and handed to client.Do, the body is read and parsed.
requestSend(c, cr, ty, cur, io, enc) ==
    IF enc.err # NilErr
    THEN [err |-> enc.err, val |-> cur, req |-> NoReq, events |-> enc.events]
    ELSE IF ~NewRequestOK(cr.method, c.Host, cr.path)
    THEN [err |-> Error("Could not create request: invalid URL", defaultCode),
          val |-> cur, req |-> NoReq, events |-> enc.events]
    ELSE IF io.net.k = "fail"
    THEN [err |-> Error("Failed to make request: " \o io.net.cause, defaultCode),
          val |-> cur, req |-> requestBuild(c, cr, enc),
          events |-> enc.events \o <<"Do">>]
    ELSE IF io.net.k = "readfail"
    THEN [err |-> Error("Could not read response: " \o io.net.cause, defaultCode),
          val |-> cur, req |-> requestBuild(c, cr, enc),
          events |-> enc.events \o <<"Do">>]
    ELSE IF io.net.k = "hang"
    THEN [err |-> Blocked, val |-> cur, req |-> requestBuild(c, cr, enc),
          events |-> enc.events \o <<"Do">>]
    ELSE [req |-> requestBuild(c, cr, enc), events |-> enc.events \o <<"Do">>]
         @@ requestParse(io.net.body, io.net.status, ty, cur)

\* medium.go:372-438.  io is what the environment does during the call: the
\* outcome of opening and reading the file, and of the round trip (io.net).
\* The result holds the error returned, the value the result pointer points
\* to afterwards, the request handed to client.Do (NoReq when none was) and
\* the file and transport events in their order.
request(c, cr, ty, cur, io) ==
    requestSend(c, cr, ty, cur, io, requestEncode(c, cr, io))

-----------------------------------------------------------------------------
(* net/url                                                                   *)

\* url.QueryEscape for the strings of the model.
QueryEscape(str) ==
    CASE str = "https://x/cb" -> "https%3A%2F%2Fx%2Fcb"
      [] str = "basicProfile,publishPost" -> "basicProfile%2CpublishPost"
      [] OTHER -> str

\* The keys of the model's url.Values, in the sorted order of Encode.
KeyOrder ==
    <<"client_id", "client_secret", "code", "grant_type", "redirect_uri",
      "refresh_token", "response_type", "scope", "state">>

RECURSIVE EncodeFrom(_, _, _)
EncodeFrom(v, i, first) ==
    IF i > Len(KeyOrder) THEN ""
    ELSE IF KeyOrder[i] \notin DOMAIN v THEN EncodeFrom(v, i + 1, first)
    ELSE (IF first THEN "" ELSE "&") \o KeyOrder[i] \o "="
         \o QueryEscape(v[KeyOrder[i]]) \o EncodeFrom(v, i + 1, FALSE)

\* url.Values.Encode: key=value pairs, sorted by key, joined by "&".
Encode(v) == EncodeFrom(v, 1, TRUE)

RECURSIVE Join(_, _)
\* strings.Join
Join(strs, sep) ==
    IF Len(strs) = 0 THEN ""
    ELSE IF Len(strs) = 1 THEN strs[1]
    ELSE strs[1] \o sep \o Join(Tail(strs), sep)

-----------------------------------------------------------------------------
(* The client of medium.go                                                   *)

\* medium.go:182-191
NewClient(id, secret) ==
    [ApplicationID |-> id, ApplicationSecret |-> secret, AccessToken |-> "",
     Host |-> host, Timeout |-> defaultTimeout,
     Transport |-> "http.DefaultTransport", fs |-> "osFS"]

\* medium.go:194-200: the fields not named keep their zero values.
NewClientWithAccessToken(accessToken) ==
    [ApplicationID |-> "", ApplicationSecret |-> "", AccessToken |-> accessToken,
     Host |-> host, Timeout |-> 0, Transport |-> "nil", fs |-> "osFS"]

\* medium.go:204-217
GetAuthorizationURL(c, state, redirectURL, scopes) ==
    "https://medium.com/m/oauth/authorize?"
    \o Encode([client_id |-> c.ApplicationID,
               scope |-> Join(scopes, ","),
               state |-> state,
               response_type |-> "code",
               redirect_uri |-> redirectURL])

\* The token of the exchange stored whether the request failed or not.
acquireSet_Always(c, r) ==
    [c |-> [c EXCEPT !.AccessToken = r.val.access_token],
     at |-> r.val, err |-> r.err, out |-> r]

\* A successful exchange that also forgets the application secret it used.
acquireSet_DropsSecret(c, r) ==
    [c |-> IF r.err = NilErr
           THEN [c EXCEPT !.AccessToken = r.val.access_token, !.ApplicationSecret = ""]
           ELSE c,
     at |-> r.val, err |-> r.err, out |-> r]

\* medium.go:451-455, given the outcome r of request(cr, &at).
acquireSet(c, r) ==
    [c |-> IF r.err = NilErr
           THEN [c EXCEPT !.AccessToken = r.val.access_token]
           ELSE c,
     at |-> r.val, err |-> r.err, out |-> r]

\* medium.go:441-456: the token request is sent; when it returns no error the
\* client's AccessToken becomes that of the token decoded.  The result holds
\* the client afterwards, the token and error returned, and the request's
\* outcome.
acquireAccessToken(c, v, io) ==
    acquireSet(c,
        request(c, clientRequest("POST", "/v1/tokens", StringData(Encode(v)), formatForm),
                "AccessToken", Zero("AccessToken"), io))

\* medium.go:220-229
ExchangeAuthorizationCode(c, code, redirectURL, io) ==
    acquireAccessToken(c,
        [code |-> code, client_id |-> c.ApplicationID,
         client_secret |-> c.ApplicationSecret,
         grant_type |-> "authorization_code", redirect_uri |-> redirectURL], io)

\* medium.go:232-240
ExchangeRefreshToken(c, rt, io) ==
    acquireAccessToken(c,
        [refresh_token |-> rt, client_id |-> c.ApplicationID,
         client_secret |-> c.ApplicationSecret,
         grant_type |-> "refresh_token"], io)

\* The current user asked for whatever userID says.
GetUser_AlwaysMe(c, userID, io) ==
    request(c, clientRequest("GET", "/v1/me", NoData, ""), "User", Zero("User"), io)

\* medium.go:245-261: the pointer u and the error of request are returned.
GetUser(c, userID, io) ==
    request(c,
        IF userID = ""
        THEN clientRequest("GET", "/v1/me", NoData, "")
        ELSE clientRequest("GET", "/v1/" \o userID, NoData, ""),
        "User", Zero("User"), io)

\* medium.go:265-273
GetUserPublications(c, userID, io) ==
    request(c,
        clientRequest("GET", "/v1/users/" \o userID \o "/publications", NoData, ""),
        "Publications", Zero("Publications"), io)

\* medium.go:278-286
GetPublicationContributors(c, publicationID, io) ==
    request(c,
        clientRequest("GET", "/v1/publications/" \o publicationID \o "/contributors",
                      NoData, ""),
        "Contributors", Zero("Contributors"), io)

\* medium.go:290-299
CreatePost(c, o, io) ==
    request(c,
        clientRequest("POST", "/v1/users/" \o o.UserID \o "/posts", PostData(o), ""),
        "Post", Zero("Post"), io)

\* medium.go:303-314
UploadImage(c, o, io) ==
    request(c,
        clientRequest("POST", "/v1/images",
                      UploadData([o EXCEPT !.fieldName = "image"]), formatFile),
        "Image", Zero("Image"), io)

-----------------------------------------------------------------------------
(* The environment: what the server and the disk may do during one call      *)

SeqsUpTo(S, n) == UNION {[1..k -> S] : k \in 0..n}

ErrItems ==
    {JObj([message |-> JStr("bad"), code |-> JNum("400")]),
     JObj([message |-> JStr("denied"), code |-> JNum("6003")])}

Absent == [t |-> "absent"]

\* The errors field of a body: absent, or a list of at most MaxErrors entries.
ErrChoices == {Absent} \cup {JArr(el) : el \in SeqsUpTo(ErrItems, MaxErrors)}

\* The object f with the key errors set, unless the choice is Absent.
WithErrors(f, ec) == IF ec = Absent THEN f ELSE ("errors" :> ec) @@ f

PubItems ==
    {JObj([id |-> JStr("p1"), name |-> JStr("One")]),
     JObj([id |-> JStr("p2"), name |-> JStr("Two")])}

ContribItems ==
    {JObj([publicationID |-> JStr("p1"), userID |-> JStr("u1"), role |-> JStr("editor")]),
     JObj([publicationID |-> JStr("p1"), userID |-> JStr("u2"), role |-> JStr("writer")])}

\* Payloads a server may put under data whatever the endpoint.
OddData == {JNull, JStr("oops"), JBool(FALSE), JObj(<<>>)}

\* Payloads of the shape of each target type, well typed and not.
Data(ty) ==
    CASE ty = "User" ->
           {JObj([id |-> JStr("u1"), username |-> JStr("alice"), name |-> JStr("Alice")]),
            JObj([id |-> JStr("u1"), username |-> JNum("0")])}
      [] ty = "Publications" ->
           {JArr(l) : l \in SeqsUpTo(PubItems, MaxItems)}
           \cup {JArr(<<JObj([id |-> JNum("0")])>>),
                 JObj([data |-> JArr(<<JObj([id |-> JStr("p1"), name |-> JStr("One")])>>)])}
      [] ty = "Contributors" ->
           {JArr(l) : l \in SeqsUpTo(ContribItems, MaxItems)}
           \cup {JObj([data |-> JArr(<<JObj([userID |-> JStr("u1"), role |-> JStr("editor")])>>)])}
      [] ty = "Post" ->
           {JObj([id |-> JStr("post1"), title |-> JStr("Title"),
                  tags |-> JArr(<<JStr("a"), JStr("b")>>)]),
            JObj([id |-> JStr("post1"), tags |-> JStr("a,b")])}
      [] ty = "Image" ->
           {JObj([url |-> JStr("https://img/1"), md5 |-> JStr("abc")]),
            JObj([url |-> JStr("https://img/1"), md5 |-> JNum("0")])}
      [] ty = "AccessToken" ->
           {JObj([token_type |-> JStr("Bearer"), access_token |-> JStr("t1"),
                  refresh_token |-> JStr("r1"), scope |-> JArr(<<JStr("basicProfile")>>),
                  expires_at |-> JNum("1500")]),
            JObj([access_token |-> JStr("t2"), expires_at |-> JNum("9007199254740993")]),
            JObj([access_token |-> JStr("t2"), expires_at |-> JNum("1.5e3")]),
            JObj([access_token |-> JStr("t2"), expires_at |-> JStr("soon")]),
            JObj([access_token |-> JNum("0"), refresh_token |-> JStr("r1")])}

\* Bodies that are the same for every endpoint: no JSON at all, JSON that is
\* no object, and envelopes whose errors field is ill typed.
GenericBodies ==
    {JInvalid(""), JInvalid("<html>"), JNull, JArr(<<>>), JStr("ok"),
     JObj([errors |-> JStr("x")]),
     JObj([errors |-> JArr(<<JObj([message |-> JStr("bad"), code |-> JStr("400")])>>)])}

\* The response bodies for a call whose target type is ty: the generic ones,
\* each payload wrapped under data, and each object payload unwrapped, all
\* with each choice of the errors field.
Bodies(ty) ==
    GenericBodies
    \cup {JObj(WithErrors([data |-> d], ec)) :
            d \in Data(ty) \cup OddData, ec \in ErrChoices}
    \cup {JObj(WithErrors(d.v, ec)) :
            d \in {x \in Data(ty) \cup OddData : x.t = "obj"}, ec \in ErrChoices}

Statuses == {199, 200, 299, 300, 400, 500}

NoNet == [k |-> "none"]

\* medium.go:407-410: the HTTP client of one call.
httpClient(c) == [Transport |-> c.Transport, Timeout |-> c.Timeout]

\* The outcomes of client.Do and of reading the body.  When the server never
\* answers, the client gives up with "Client.Timeout exceeded" if its Timeout
\* is not zero; a Timeout of zero means no timeout, and the call hangs.
NetOutcomes(cl, ty) ==
    {[k |-> "fail", cause |-> "connection refused"],
     [k |-> "readfail", cause |-> "unexpected EOF"]}
    \cup (IF cl.Timeout > 0
          THEN {[k |-> "fail", cause |-> "Client.Timeout exceeded"],
                [k |-> "readfail", cause |-> "Client.Timeout exceeded"]}
          ELSE {[k |-> "hang"]})
    \cup {[k |-> "resp", status |-> st, body |-> b] : st \in Statuses, b \in Bodies(ty)}

\* The environment of a call that touches no file.
IOs(cl, ty) == {[open |-> "ok", read |-> "ok", net |-> n] : n \in NetOutcomes(cl, ty)}

\* The environment of an upload: a file on disk may fail to open or to be
\* read, and then the network is not reached.
FileIOs(c, ty) ==
    IOs(httpClient(c), ty)
    \cup (IF c.fs = "osFS"
          THEN {[open |-> "fail", read |-> "ok", net |-> NoNet],
                [open |-> "ok", read |-> "fail", net |-> NoNet]}
          ELSE {})

-----------------------------------------------------------------------------
(* Inputs of the callers                                                     *)

UserIDs == {"", "u1", BadID}
Tokens == {"", "token"}
FilePaths == {"/fake/file.png", "/fake/q\"uote.png"}
ScopeLists == {<<>>, <<"basicProfile">>, <<"basicProfile", "publishPost">>}

PostOptions ==
    {[UserID |-> u, Title |-> "Title", Content |-> "Yo", ContentFormat |-> "html",
      Tags |-> tg, CanonicalURL |-> "", PublishStatus |-> ps, License |-> ""] :
        u \in {"42"}, tg \in {<<>>, <<"go">>}, ps \in {"", "draft"}}

UploadOptionsSet ==
    {[FilePath |-> fp, ContentType |-> "image/png", fieldName |-> ""] : fp \in FilePaths}

-----------------------------------------------------------------------------
(* The state machine                                                         *)

\* No call is in progress or waiting to be looked at.
Idle == [op |-> "idle"]

\* The record of a finished call: the operation and its argument, the client
\* before it and the token the caller expected it to hold, the environment's
\* part, what request() produced, and what the operation returned to its
\* caller.
Call(op, arg, pre, io, out, val, err) ==
    [op |-> op, arg |-> arg, pre |-> pre, held |-> granted, io |-> io,
     out |-> out, ret |-> [val |-> val, err |-> err]]

\* The environment and the pipeline's outcome of a call that sends nothing.
NoIO == [open |-> "ok", read |-> "ok", net |-> NoNet]
NoOut == [err |-> NilErr, val |-> "", req |-> NoReq, events |-> <<>>]

\* The state after construction: NewClient or NewClientWithAccessToken; the
\* test harness replaces fs by its in-memory file system (medium_test.go:61).
Init ==
    /\ m \in {NewClient("clientId", "clientSecret"),
              [NewClient("clientId", "clientSecret") EXCEPT !.fs = "fakeFS"]}
             \cup {NewClientWithAccessToken("token")}
    /\ last = Idle
    /\ granted = m.AccessToken

\* The caller assigns the exported field (README, medium_test.go:72).
SetAccessToken ==
    /\ last = Idle
    /\ \E t \in Tokens : m' = [m EXCEPT !.AccessToken = t] /\ granted' = t
    /\ UNCHANGED last

\* The caller has looked at the outcome of the last call; a call that hangs
\* has none.
Return ==
    /\ last # Idle
    /\ last.ret.err # Blocked
    /\ last' = Idle
    /\ UNCHANGED <<m, granted>>

DoGetAuthorizationURL ==
    /\ last = Idle
    /\ \E sc \in ScopeLists :
         last' = Call("GetAuthorizationURL", sc, m, NoIO, NoOut,
                      GetAuthorizationURL(m, "secretstate", "https://x/cb", sc), NilErr)
    /\ UNCHANGED <<m, granted>>

\* An exchange: the client becomes the one acquireAccessToken leaves; the
\* caller notes the token of a grant that returned no error.
DoExchange(op, r, io) ==
    /\ m' = r.c
    /\ last' = Call(op, "", m, io, r.out, r.at, r.err)
    /\ granted' = IF r.err = NilErr THEN r.at.access_token ELSE granted

DoExchangeAuthorizationCode ==
    /\ last = Idle
    /\ \E io \in IOs(httpClient(m), "AccessToken") :
         DoExchange("ExchangeAuthorizationCode",
                    ExchangeAuthorizationCode(m, "code1", "https://x/cb", io), io)

DoExchangeRefreshToken ==
    /\ last = Idle
    /\ \E io \in IOs(httpClient(m), "AccessToken") :
         DoExchange("ExchangeRefreshToken", ExchangeRefreshToken(m, "r1", io), io)

\* An endpoint operation returns the value its result points to and the
\* error of request.
DoRequest(op, arg, io, r) ==
    /\ last' = Call(op, arg, m, io, r, r.val, r.err)
    /\ UNCHANGED <<m, granted>>

DoGetUser ==
    /\ last = Idle
    /\ \E u \in UserIDs, io \in IOs(httpClient(m), "User") :
         DoRequest("GetUser", u, io, GetUser(m, u, io))

DoGetUserPublications ==
    /\ last = Idle
    /\ \E u \in {"u1"}, io \in IOs(httpClient(m), "Publications") :
         DoRequest("GetUserPublications", u, io, GetUserPublications(m, u, io))

DoGetPublicationContributors ==
    /\ last = Idle
    /\ \E p \in {"b45573563f5a"}, io \in IOs(httpClient(m), "Contributors") :
         DoRequest("GetPublicationContributors", p, io,
                   GetPublicationContributors(m, p, io))

DoCreatePost ==
    /\ last = Idle
    /\ \E o \in PostOptions, io \in IOs(httpClient(m), "Post") :
         DoRequest("CreatePost", o, io, CreatePost(m, o, io))

DoUploadImage ==
    /\ last = Idle
    /\ \E o \in UploadOptionsSet, io \in FileIOs(m, "Image") :
         DoRequest("UploadImage", o, io, UploadImage(m, o, io))

\* The requests a caller inside the package may hand to request: one that
\* every stage accepts, and one that each encoder, or the switch on the
\* format, refuses.
InternalRequests ==
    {clientRequest("GET", "/v1/me", NoData, ""),
     clientRequest("POST", "/v1/me", FuncData, formatJSON),
     clientRequest("POST", "/v1/me", FuncData, ""),
     clientRequest("POST", "/v1/tokens", PostData(CHOOSE o \in PostOptions : TRUE), formatForm),
     clientRequest("POST", "/v1/images", StringData("/fake/file.png"), formatFile),
     clientRequest("POST", "/v1/images", NoData, formatFile),
     clientRequest("GET", "/v1/me", NoData, "xml"),
     clientRequest("POST", "/v1/me", StringData("a=b"), "yaml")}

\* The environment of such a call.
InternalIOs(c) ==
    {io \in IOs(httpClient(c), "User") :
        io.net.k = "resp" =>
            /\ io.net.status \in {200, 400}
            /\ io.net.body = JObj([data |-> JObj([id |-> JStr("u1"),
                                                  username |-> JStr("alice"),
                                                  name |-> JStr("Alice")])])}

\* medium.go:372: request called with a clientRequest that no public
\* operation builds, and a *User for its result.
DoInternalRequest ==
    /\ last = Idle
    /\ \E cr \in InternalRequests, io \in InternalIOs(m) :
         DoRequest("request", cr, io, request(m, cr, "User", Zero("User"), io))

Next ==
    \/ SetAccessToken
    \/ Return
    \/ DoGetAuthorizationURL
    \/ DoExchangeAuthorizationCode
    \/ DoExchangeRefreshToken
    \/ DoGetUser
    \/ DoGetUserPublications
    \/ DoGetPublicationContributors
    \/ DoCreatePost
    \/ DoUploadImage
    \/ DoInternalRequest

Spec == Init /\ [][Next]_vars

-----------------------------------------------------------------------------
(* The earlier client: type medium, with request and parseResponse in one    *)
(* file, the token exchange in a second and the operations in a third        *)

\* New(id, secret)
New(id, secret) ==
    [ApplicationId |-> id, ApplicationSecret |-> secret, AccessToken |-> "",
     Host |-> "https://api.medium.com", fs |-> "osFS"]

\* A nil error's Error method is called: a nil-pointer panic.
NilDereference == [kind |-> "panic", what |-> "nil pointer dereference"]

\* The switch on the format in (*medium).request: the body and the content
\* type.  For a file payload that is no UploadOptions the message is built
\* from err.Error() with err still nil.
medium_encode(c, cr, io) ==
    CASE cr.format \in {"", "json"} ->
           IF ~Marshalable(cr.data)
           THEN [body |-> NoBody, ct |-> "",
                 err |-> Error("Could not marshal JSON: unsupported type", defaultCode),
                 events |-> <<>>]
           ELSE [body |-> MarshalData(cr.data), ct |-> "application/json",
                 err |-> NilErr, events |-> <<>>]
      [] cr.format = "form" ->
           IF cr.data.d = "string"
           THEN [body |-> [t |-> "form", v |-> cr.data.s],
                 ct |-> "application/x-www-form-urlencoded", err |-> NilErr,
                 events |-> <<>>]
           ELSE [body |-> NoBody, ct |-> "",
                 err |-> Error("Invalid data passed to form", defaultCode),
                 events |-> <<>>]
      [] cr.format = "file" ->
           IF cr.data.d # "UploadOptions"
           THEN [body |-> NoBody, ct |-> "", err |-> NilDereference, events |-> <<>>]
           ELSE IF Open(c.fs, cr.data.o.FilePath, io) # "ok"
           THEN [body |-> NoBody, ct |-> "",
                 err |-> Error("Could not open file: no such file", defaultCode),
                 events |-> <<"open failed">>]
           ELSE IF c.fs # "fakeFS" /\ io.read # "ok"
           THEN [body |-> NoBody, ct |-> "",
                 err |-> Error("Could not copy data: read error", defaultCode),
                 events |-> <<"open", "close">>]
           ELSE [body |-> [t |-> "multipart",
                           name |-> escapeQuotes(cr.data.o.fieldName),
                           filename |-> escapeQuotes(Base(cr.data.o.FilePath)),
                           partType |-> cr.data.o.ContentType,
                           content |-> "contents"],
                 ct |-> "multipart/form-data; boundary=b",
                 err |-> NilErr,
                 events |-> <<"open">>]
      [] OTHER ->
           [body |-> NoBody, ct |-> "",
            err |-> Error("Unknown format: " \o cr.format, defaultCode),
            events |-> <<>>]

\* parseResponse, given the outcome e of json.Unmarshal(content, &env).
parseEnvelope(content, code, ty, cur, e) ==
    IF e.err # NilErr
    THEN [err |-> Error("Could not parse response: " \o e.err.kind, defaultCode),
          val |-> cur]
    ELSE IF 200 <= code /\ code < 300
    THEN UnmarshalResult(IF e.val.data # GoNil THEN Marshal(e.val.data) ELSE content,
                         ty, cur)
    ELSE IF Len(e.val.errors) = 0
    THEN [err |-> IndexOutOfRange, val |-> cur]
    ELSE [err |-> Error(e.val.errors[1].message, e.val.errors[1].code), val |-> cur]

\* parseResponse(content, code, result)
parseResponse(content, code, ty, cur) ==
    parseEnvelope(content, code, ty, cur,
                  Unmarshal(content, "envelope", Zero("envelope")))

\* defer file.Close() of the file case is a defer of (*medium).request: the
\* file that the switch left open is closed when request returns, whether it
\* returns an error, a result or panics.
medium_deferred(enc) ==
    IF enc.err = NilErr /\ enc.events = <<"open">> THEN <<"close">> ELSE <<>>

\* (*medium).request after the switch on the format, enc its outcome.
medium_send(c, cr, ty, cur, io, enc) ==
    IF enc.err # NilErr
    THEN [err |-> enc.err, val |-> cur, req |-> NoReq, events |-> enc.events]
    ELSE IF ~NewRequestOK(cr.method, c.Host, cr.path)
    THEN [err |-> Error("Could not create request: invalid URL", defaultCode),
          val |-> cur, req |-> NoReq, events |-> enc.events \o medium_deferred(enc)]
    ELSE IF io.net.k = "fail"
    THEN [err |-> Error("Failed to make request: " \o io.net.cause, defaultCode),
          val |-> cur, req |-> requestBuild(c, cr, enc),
          events |-> enc.events \o <<"Do">> \o medium_deferred(enc)]
    ELSE IF io.net.k = "readfail"
    THEN [err |-> Error("Could not read response: " \o io.net.cause, defaultCode),
          val |-> cur, req |-> requestBuild(c, cr, enc),
          events |-> enc.events \o <<"Do">> \o medium_deferred(enc)]
    ELSE IF io.net.k = "hang"
    THEN [err |-> Blocked, val |-> cur, req |-> requestBuild(c, cr, enc),
          events |-> enc.events \o <<"Do">>]
    ELSE [req |-> requestBuild(c, cr, enc),
          events |-> enc.events \o <<"Do">> \o medium_deferred(enc)]
         @@ parseResponse(io.net.body, io.net.status, ty, cur)

\* (*medium).request
medium_request(c, cr, ty, cur, io) ==
    medium_send(c, cr, ty, cur, io, medium_encode(c, cr, io))

\* (*medium).acquireAccessToken after the request, r its outcome: the token
\* is stored when err != nil.  A request that panics or hangs does not return
\* here.
medium_acquireSet(c, r) ==
    [c |-> IF r.err.kind \notin {"nil", "panic", "blocked"}
           THEN [c EXCEPT !.AccessToken = r.val.access_token]
           ELSE c,
     at |-> r.val, err |-> r.err, out |-> r]

\* (*medium).acquireAccessToken
medium_acquireAccessToken(c, v, io) ==
    medium_acquireSet(c,
        medium_request(c, clientRequest("POST", "/v1/tokens", StringData(Encode(v)), "form"),
                       "AccessToken", Zero("AccessToken"), io))

\* (*medium).GetAuthorizationUrl
medium_GetAuthorizationUrl(c, scope, state, redirectUrl) ==
    "https://medium.com/m/oauth/authorize?"
    \o Encode([client_id |-> c.ApplicationId,
               scope |-> Join(scope, ","),
               state |-> state,
               response_type |-> "code",
               redirect_uri |-> redirectUrl])

\* (*medium).ExchangeAuthorizationCode
medium_ExchangeAuthorizationCode(c, code, redirectUrl, io) ==
    medium_acquireAccessToken(c,
        [code |-> code, client_id |-> c.ApplicationId,
         client_secret |-> c.ApplicationSecret,
         grant_type |-> "authorization_code", redirect_uri |-> redirectUrl], io)

\* (*medium).ExchangeRefreshToken
medium_ExchangeRefreshToken(c, rt, io) ==
    medium_acquireAccessToken(c,
        [refresh_token |-> rt, client_id |-> c.ApplicationId,
         client_secret |-> c.ApplicationSecret,
         grant_type |-> "refresh_token"], io)

\* (*medium).GetUser
medium_GetUser(c, io) ==
    medium_request(c, clientRequest("GET", "/v1/me", NoData, ""),
                   "User", Zero("User"), io)

\* (*medium).CreatePost
medium_CreatePost(c, o, io) ==
    medium_request(c,
        clientRequest("POST", "/v1/users/" \o o.UserID \o "/posts", PostData(o), ""),
        "Post", Zero("Post"), io)

\* (*medium).UploadImage
medium_UploadImage(c, o, io) ==
    medium_request(c,
        clientRequest("POST", "/v1/images",
                      UploadData([o EXCEPT !.fieldName = "image"]), "file"),
        "Image", Zero("Image"), io)

\* http.Client{} of (*medium).request: no timeout.
zeroClient == [Transport |-> "nil", Timeout |-> 0]

InitLegacy ==
    /\ m \in {New("clientId", "clientSecret"),
              [New("clientId", "clientSecret") EXCEPT !.fs = "fakeFS"]}
    /\ last = Idle
    /\ granted = m.AccessToken

LegacyGetAuthorizationUrl ==
    /\ last = Idle
    /\ \E sc \in ScopeLists :
         last' = Call("GetAuthorizationUrl", sc, m, NoIO, NoOut,
                      medium_GetAuthorizationUrl(m, sc, "secretstate", "https://x/cb"),
                      NilErr)
    /\ UNCHANGED <<m, granted>>

LegacyExchangeAuthorizationCode ==
    /\ last = Idle
    /\ \E io \in IOs(zeroClient, "AccessToken") :
         DoExchange("ExchangeAuthorizationCode",
                    medium_ExchangeAuthorizationCode(m, "code1", "https://x/cb", io), io)

LegacyExchangeRefreshToken ==
    /\ last = Idle
    /\ \E io \in IOs(zeroClient, "AccessToken") :
         DoExchange("ExchangeRefreshToken", medium_ExchangeRefreshToken(m, "r1", io), io)

LegacyGetUser ==
    /\ last = Idle
    /\ \E io \in IOs(zeroClient, "User") :
         DoRequest("GetUser", "", io, medium_GetUser(m, io))

LegacyCreatePost ==
    /\ last = Idle
    /\ \E o \in PostOptions, io \in IOs(zeroClient, "Post") :
         DoRequest("CreatePost", o, io, medium_CreatePost(m, o, io))

LegacyUploadImage ==
    /\ last = Idle
    /\ \E o \in UploadOptionsSet,
          io \in IOs(zeroClient, "Image")
                 \cup (IF m.fs = "osFS"
                       THEN {[open |-> "fail", read |-> "ok", net |-> NoNet],
                             [open |-> "ok", read |-> "fail", net |-> NoNet]}
                       ELSE {}) :
         DoRequest("UploadImage", o, io, medium_UploadImage(m, o, io))

NextLegacy ==
    \/ SetAccessToken
    \/ Return
    \/ LegacyGetAuthorizationUrl
    \/ LegacyExchangeAuthorizationCode
    \/ LegacyExchangeRefreshToken
    \/ LegacyGetUser
    \/ LegacyCreatePost
    \/ LegacyUploadImage

SpecLegacy == InitLegacy /\ [][NextLegacy]_vars

-----------------------------------------------------------------------------
(* Vocabulary of the properties                                              *)

ExchangeOps == {"ExchangeAuthorizationCode", "ExchangeRefreshToken"}

EndpointOps ==
    {"GetUser", "GetUserPublications", "GetPublicationContributors",
     "CreatePost", "UploadImage"}

\* The type of the result of an operation.
TargetOf(op) ==
    CASE op = "GetUser" -> "User"
      [] op = "GetUserPublications" -> "Publications"
      [] op = "GetPublicationContributors" -> "Contributors"
      [] op = "CreatePost" -> "Post"
      [] op = "UploadImage" -> "Image"
      [] op \in ExchangeOps -> "AccessToken"
      [] op = "request" -> "User"

\* The last call sent its request and got a response from the server.
GotResponse == last # Idle /\ last.out.req # NoReq /\ last.io.net.k = "resp"

Is2xx(st) == 200 <= st /\ st < 300

\* An entry of an errors list: message a string, code an integer.
IsErrorEntry(e) ==
    /\ e.t = "obj"
    /\ "message" \in DOMAIN e.v => e.v.message.t = "str"
    /\ "code" \in DOMAIN e.v => e.v.code.t = "num" /\ IsIntLit(e.v.code.v)

\* The body is an envelope: null or an object whose errors field, when it is
\* there, is null or a list of error entries.
IsEnvelope(b) ==
    \/ b.t = "null"
    \/ /\ b.t = "obj"
       /\ "errors" \in DOMAIN b.v =>
            \/ b.v.errors.t = "null"
            \/ /\ b.v.errors.t = "arr"
               /\ \A i \in DOMAIN b.v.errors.v : IsErrorEntry(b.v.errors.v[i])

\* The errors list of an envelope, <<>> when it has none.
ErrorsOf(b) ==
    IF b.t = "obj" /\ "errors" \in DOMAIN b.v /\ b.v.errors.t = "arr"
    THEN b.v.errors.v ELSE <<>>

\* The data field of an envelope, null when it has none.
DataOf(b) == IF b.t = "obj" /\ "data" \in DOMAIN b.v THEN b.v.data ELSE JNull

RECURSIVE WellTyped(_, _)
\* The JSON value d has the shape of the type ty; for Publications and
\* Contributors that is the list the API puts under data.
WellTyped(ty, d) ==
    CASE ty = "string" -> d.t = "str"
      [] ty = "int64" -> d.t = "num" /\ IsIntLit(d.v)
      [] IsSlice(ty) ->
           d.t = "arr" /\ \A i \in DOMAIN d.v : WellTyped(ElemType(ty), d.v[i])
      [] ty \in {"Publications", "Contributors"} -> WellTyped(Fields(ty).data, d)
      [] OTHER ->
           /\ d.t = "obj"
           /\ \A f \in DOMAIN d.v \cap DOMAIN Fields(ty) : WellTyped(Fields(ty)[f], d.v[f])

RECURSIVE Typed(_, _)
\* The value of type ty that a well-typed d denotes.
Typed(ty, d) ==
    CASE ty \in {"string", "int64"} -> d.v
      [] IsSlice(ty) -> [i \in DOMAIN d.v |-> Typed(ElemType(ty), d.v[i])]
      [] ty \in {"Publications", "Contributors"} ->
           [data |-> Typed(Fields(ty).data, d)]
      [] OTHER ->
           [f \in DOMAIN Fields(ty) |->
              IF f \in DOMAIN d.v THEN Typed(Fields(ty)[f], d.v[f])
              ELSE Zero(Fields(ty)[f])]

-----------------------------------------------------------------------------
(* Token exchange and the bearer token                                       *)

\* C1: after ExchangeAuthorizationCode or ExchangeRefreshToken returns with
\* no error, the client's AccessToken equals the AccessToken of the token
\* returned, whatever it held before.  Stated for either client; the one of
\* type medium violates it (SpecLegacy).
C1_TokenStoredOnSuccess ==
    (last # Idle /\ last.op \in ExchangeOps /\ last.ret.err = NilErr)
        => m.AccessToken = last.ret.val.access_token

\* C1 for the client of medium.go, where it holds (Spec).
C1_Medium_TokenStoredOnSuccess == C1_TokenStoredOnSuccess /\ "Timeout" \in DOMAIN m

\* An exchange has succeeded and replaced a different token.
C1_Medium_Witness ==
    /\ last # Idle /\ last.op = "ExchangeRefreshToken" /\ last.ret.err = NilErr
    /\ last.pre.AccessToken = "token" /\ m.AccessToken = "t1"

\* C2: when an exchange returns an error of any kind, the client's
\* AccessToken after the call is the one it held before.  Stated for either
\* client; the one of type medium violates it (SpecLegacy).
C2_TokenKeptOnError ==
    (last # Idle /\ last.op \in ExchangeOps /\ last.ret.err.kind \notin {"nil", "panic", "blocked"})
        => m.AccessToken = last.pre.AccessToken

\* C2 for the client of medium.go, where it holds (Spec).
C2_Medium_TokenKeptOnError == C2_TokenKeptOnError /\ "Timeout" \in DOMAIN m

\* An exchange has failed after decoding a bearer value, and the client
\* still holds its earlier token.
C2_Medium_Witness ==
    /\ last # Idle /\ last.op = "ExchangeAuthorizationCode"
    /\ last.ret.err = UnmarshalTypeError /\ last.ret.val.access_token = "t2"
    /\ m.AccessToken = "token"

\* C3: every request handed to the transport, those of the exchanges
\* included, carries Authorization = "Bearer " + the token the client holds
\* when the call is made, and that token is the one of the latest grant that
\* returned no error, or the one set at construction or by the caller when
\* there was none since; it may be empty.
C3_AuthorizationIsCurrentToken ==
    /\ m.AccessToken = granted
    /\ (last # Idle /\ last.out.req # NoReq)
         => /\ last.pre.AccessToken = last.held
            /\ last.out.req.Authorization = "Bearer " \o last.held

\* A request of GetUser made after a grant has carried the granted token.
C3_Witness ==
    /\ last # Idle /\ last.op = "GetUser" /\ last.held = "t1"
    /\ last.out.req # NoReq /\ last.out.req.Authorization = "Bearer t1"

\* C4: GetAuthorizationURL and the endpoint operations leave the client as
\* it was, whether they succeed or fail, and an exchange changes no field
\* but AccessToken.
C4_OnlyExchangeWritesToken ==
    last # Idle =>
        /\ last.op \notin ExchangeOps => m = last.pre
        /\ m = [last.pre EXCEPT !.AccessToken = m.AccessToken]

\* An exchange has changed the token, and nothing else.
C4_Witness ==
    /\ last # Idle /\ last.op \in ExchangeOps
    /\ m.AccessToken # last.pre.AccessToken
    /\ m.ApplicationSecret = "clientSecret"

-----------------------------------------------------------------------------
(* The response: results and errors                                          *)

\* What a 2xx envelope is decoded from: its data field when that is there
\* and not null, the whole body otherwise.
PayloadOf(b) == IF DataOf(b) # JNull THEN DataOf(b) ELSE b

\* The last call got a response of a status in [200, 300) whose body is an
\* envelope.
Got2xxEnvelope ==
    GotResponse /\ Is2xx(last.io.net.status) /\ IsEnvelope(last.io.net.body)

\* The last call got a response of a status outside [200, 300) whose body is
\* an envelope.
GotNon2xxEnvelope ==
    GotResponse /\ ~Is2xx(last.io.net.status) /\ IsEnvelope(last.io.net.body)

\* C5: for a 2xx response whose body is an envelope, the result is decoded
\* from the data field when it is present and not null and from the raw body
\* when it is absent, whatever the errors list holds: a payload of the shape
\* of the target type gives no error and a value equal to the payload.
C5_ResultIsUnwrappedData ==
    (Got2xxEnvelope /\ WellTyped(TargetOf(last.op), PayloadOf(last.io.net.body)))
        => /\ last.ret.err = NilErr
           /\ last.ret.val = Typed(TargetOf(last.op), PayloadOf(last.io.net.body))

\* C6: GetUserPublications and GetPublicationContributors, given a 2xx
\* envelope whose data is a list of publications or contributors, the empty
\* list included, return no error and a Data list equal to it.
C6_ListIsReturned ==
    (/\ Got2xxEnvelope
     /\ last.op \in {"GetUserPublications", "GetPublicationContributors"}
     /\ DataOf(last.io.net.body).t = "arr"
     /\ WellTyped(TargetOf(last.op), DataOf(last.io.net.body)))
        => /\ last.ret.err = NilErr
           /\ Len(last.ret.val.data) = Len(DataOf(last.io.net.body).v)
           /\ last.ret.val.data = Typed(TargetOf(last.op), DataOf(last.io.net.body)).data

\* The Error an entry of an errors list stands for; a key it lacks leaves
\* the zero value.
ErrorOfEntry(e) ==
    Error(IF "message" \in DOMAIN e.v THEN e.v.message.v ELSE "",
          IF "code" \in DOMAIN e.v THEN ParseInt(e.v.code.v) ELSE 0)

\* C7: for a response of a status outside [200, 300) whose envelope has a
\* non-empty errors list, the operation returns the Error of the first
\* entry; later entries and a data field have no influence.
C7_FirstErrorIsReturned ==
    (GotNon2xxEnvelope /\ Len(ErrorsOf(last.io.net.body)) > 0)
        => last.ret.err = ErrorOfEntry(ErrorsOf(last.io.net.body)[1])

\* A 400 whose envelope holds data and two different entries has given the
\* Error of the first.
C7_Witness ==
    /\ GotNon2xxEnvelope /\ last.io.net.status = 400
    /\ Len(ErrorsOf(last.io.net.body)) = 2
    /\ ErrorsOf(last.io.net.body)[1] # ErrorsOf(last.io.net.body)[2]
    /\ DataOf(last.io.net.body) # JNull
    /\ last.ret.err = Error("denied", 6003)

\* C8: for a response of a status outside [200, 300) whose envelope has an
\* empty or absent errors list, the operation returns an Error to its
\* caller; it does not index out of bounds or abort the caller.
C8_EmptyErrorsIsAnError ==
    (GotNon2xxEnvelope /\ Len(ErrorsOf(last.io.net.body)) = 0)
        => last.ret.err.kind = "Error"

\* The last call returned an error to its caller (it did not panic).
ReturnedError == last # Idle /\ last.ret.err.kind \notin {"nil", "panic", "blocked"}

\* The error has the shape it should: the server's first entry for a non-2xx
\* envelope, and an Error of code -1 for every other failure.
FlatError ==
    /\ last.ret.err.kind = "Error"
    /\ IF GotNon2xxEnvelope
       THEN /\ Len(ErrorsOf(last.io.net.body)) > 0
            /\ last.ret.err = ErrorOfEntry(ErrorsOf(last.io.net.body)[1])
       ELSE last.ret.err.Code = defaultCode

\* C9 as stated: every error an operation returns is an Error{message, code},
\* of code -1 for every local failure, the decoding of a 2xx payload
\* included, and of the server's code for a failure the API reports.
C9_EveryErrorIsFlat == ReturnedError => FlatError

\* C9 amended: every error an operation returns is such an Error, except
\* that a failure to decode the payload of a 2xx envelope into the target
\* type is returned as the error of encoding/json itself, which is no Error
\* and has no code.
C9_FlatExcept2xxDecode ==
    ReturnedError =>
        IF Got2xxEnvelope
        THEN last.ret.err \in {SyntaxError, UnmarshalTypeError}
        ELSE FlatError

\* A 2xx payload of the wrong type has come back as encoding/json's error.
C9_Witness ==
    /\ Got2xxEnvelope /\ last.op = "GetUser"
    /\ last.ret.err = UnmarshalTypeError

\* C10: an operation ends with no error and a decoded result, or with an
\* error and the zero value of its result type; it never returns an error
\* together with a result partly filled from the response.
C10_NoPartialResult ==
    (last # Idle /\ last.op \in EndpointOps \cup ExchangeOps /\ last.ret.err # NilErr)
        => last.ret.val = Zero(TargetOf(last.op))

-----------------------------------------------------------------------------
(* Timeouts                                                                  *)

\* The last call handed its request to the HTTP client, and the round trip
\* took longer than the client's Timeout, before the response came or while
\* its body was read.
TimedOut ==
    /\ last # Idle /\ last.out.req # NoReq
    /\ last.io.net.k \in {"fail", "readfail"}
    /\ last.io.net.cause = "Client.Timeout exceeded"

\* C11: a call whose round trip exceeds the client's Timeout returns an
\* Error of code -1 with the zero value of its result, and leaves the token
\* and every other field of the client as they were; an exchange does so as
\* well as an endpoint operation.
C11_TimeoutIsAFailure ==
    TimedOut =>
        /\ last.pre.Timeout > 0
        /\ last.ret.err.kind = "Error" /\ last.ret.err.Code = defaultCode
        /\ last.ret.val = Zero(TargetOf(last.op))
        /\ m = last.pre

\* An exchange of a client that holds a token has timed out.
C11_Witness ==
    /\ TimedOut /\ last.op = "ExchangeRefreshToken"
    /\ last.io.net.k = "fail" /\ last.pre.AccessToken = "token"
    /\ last.ret.err = Error("Failed to make request: Client.Timeout exceeded", defaultCode)

\* The clients as the constructors make them, no field touched since.
Constructed ==
    {NewClient("clientId", "clientSecret"), NewClientWithAccessToken("token")}

\* C12: on a client no field of which was changed since NewClient or
\* NewClientWithAccessToken made it, the default timeout is in effect on
\* every call: a call that sends a request returns, with an error when the
\* server never answers, and does not wait forever.
C12_TimeoutIsEnforced ==
    (last # Idle /\ last.pre \in Constructed /\ last.out.req # NoReq)
        => /\ last.pre.Timeout = defaultTimeout
           /\ last.ret.err # Blocked

\* C12 for the clients of NewClient alone, where it holds.
C12_NewClient_TimeoutIsEnforced ==
    (last # Idle /\ last.pre = NewClient("clientId", "clientSecret"))
        => C12_TimeoutIsEnforced

-----------------------------------------------------------------------------
(* One request per call                                                      *)

\* How many times e occurs in the sequence s.
CountOf(s, e) == Cardinality({i \in DOMAIN s : s[i] = e})

\* The payload of the last call could not be encoded: the file of an upload
\* did not open or could not be read, or request was handed a payload that
\* the encoder of its format refuses, or a format that is none of the three.
EncodingFails ==
    \/ last.op = "UploadImage" /\ "fail" \in {last.io.open, last.io.read}
    \/ /\ last.op = "request"
       /\ \/ last.arg.format \in {"", formatJSON} /\ last.arg.data = FuncData
          \/ last.arg.format = formatForm /\ last.arg.data.d # "string"
          \/ last.arg.format = formatFile /\ last.arg.data.d # "UploadOptions"
          \/ last.arg.format \notin {"", formatJSON, formatForm, formatFile}

\* The URL of the last call does not parse: http.NewRequest fails.
ConstructionFails == last.op = "GetUser" /\ last.arg = BadID

-----------------------------------------------------------------------------
(* One client shared by goroutines: an exchange and ordinary calls at once   *)

\* The goroutines that make an ordinary call while the exchange runs.
Readers == {"g1", "g2"}

\* A string is two words in memory, the pointer to its bytes and its length.
Words == {"ptr", "len"}

\* The words of the string s.
WordsOf(s) == [ptr |-> s, len |-> s]

\* The string two words make when they come from different strings: the
\* bytes of one cut or stretched to the length of the other.
Torn(p, l) == "<bytes of '" \o p \o "' with the length of '" \o l \o "'>"

\* The string that the words w make; one of length zero is empty whatever
\* its pointer.
StringOf(w) ==
    IF w.ptr = w.len THEN w.ptr
    ELSE IF w.len = "" THEN ""
    ELSE Torn(w.ptr, w.len)

\* The token assigned whatever request returned.
Stores_Always(r) == r.err = r.err

\* medium.go:452: acquireAccessToken assigns the token when request returned
\* no error.
Stores(r) == r.err = NilErr

\* What the server and the network do to the exchange.
RaceIOs(c) ==
    {io \in IOs(httpClient(c), "AccessToken") :
        io.net.k = "resp" =>
            /\ io.net.status \in {200, 400}
            /\ io.net.body.t = "obj"
            /\ "data" \notin DOMAIN io.net.body.v
            /\ "errors" \in DOMAIN io.net.body.v => Len(ErrorsOf(io.net.body)) = 1}

\* medium.go:396-404: the request of an ordinary call, GetUser(""), stamped
\* with the token as the goroutine read it.
raceRequest(c, w) ==
    requestBuild([c EXCEPT !.AccessToken = StringOf(w)],
                 clientRequest("GET", "/v1/me", NoData, ""),
                 requestEncode(c, clientRequest("GET", "/v1/me", NoData, ""), NoIO))

\* The exchange has not sent its request, every reader has read nothing.
InitRace ==
    /\ m \in {[c EXCEPT !.AccessToken = t] :
                c \in {NewClient("clientId", "clientSecret"),
                       NewClientWithAccessToken("token")},
                t \in Tokens}
    /\ granted = m.AccessToken
    /\ last = [op |-> "race", old |-> m.AccessToken, x |-> "start",
               at |-> Zero("AccessToken"), err |-> NilErr,
               mem |-> WordsOf(m.AccessToken), stored |-> {},
               loaded |-> [g \in Readers |-> {}],
               seen |-> [g \in Readers |-> WordsOf("")],
               req |-> [g \in Readers |-> NoReq]]

\* The exchange's request has returned: r holds the token decoded and the
\* error.
XReturned(r) ==
    /\ last' = [last EXCEPT !.x = IF Stores(r) THEN "store" ELSE "done",
                            !.at = r.at, !.err = r.err]
    /\ granted' = IF r.err = NilErr THEN r.at.access_token ELSE granted
    /\ UNCHANGED m

\* medium.go:441-450: the exchange sends its request and gets the outcome.
XRequest ==
    /\ last.x = "start"
    /\ \E io \in RaceIOs(m) : XReturned(ExchangeRefreshToken(m, "r1", io))

\* medium.go:453: m.AccessToken = at.AccessToken, one word at a time, in the
\* order the build chose.
XStore ==
    /\ last.x = "store"
    /\ \E w \in Words \ last.stored :
         /\ last' = [last EXCEPT !.mem[w] = last.at.access_token,
                                 !.stored = last.stored \cup {w},
                                 !.x = IF last.stored \cup {w} = Words
                                       THEN "done" ELSE "store"]
         /\ m' = IF last.stored \cup {w} = Words
                 THEN [m EXCEPT !.AccessToken = last.at.access_token] ELSE m
    /\ UNCHANGED granted

\* medium.go:404: a reader loads one word of m.AccessToken.
RLoad(g) ==
    /\ \E w \in Words \ last.loaded[g] :
         last' = [last EXCEPT !.seen[g][w] = last.mem[w],
                              !.loaded[g] = last.loaded[g] \cup {w}]
    /\ UNCHANGED <<m, granted>>

\* medium.go:404-416: the reader stamps the header and sends its request.
RSend(g) ==
    /\ last.loaded[g] = Words
    /\ last.req[g] = NoReq
    /\ last' = [last EXCEPT !.req[g] = raceRequest(m, last.seen[g])]
    /\ UNCHANGED <<m, granted>>

NextRace ==
    \/ XRequest
    \/ XStore
    \/ \E g \in Readers : RLoad(g)
    \/ \E g \in Readers : RSend(g)

SpecRace == InitRace /\ [][NextRace]_vars

\* The tokens a whole read of m.AccessToken can give during the exchange:
\* the one from before it and, once the exchange has returned no error, the
\* one it granted.
WholeTokens ==
    {last.old} \cup (IF last.x # "start" /\ last.err = NilErr
                     THEN {last.at.access_token} ELSE {})

\* The values a read that overlaps the write can give as well: the pointer
\* of one string with the length of the other.
TornTokens == {Torn(p, l) : p \in WholeTokens, l \in WholeTokens}

\* C14 as stated: there is no lock, the write of the exchange and the reads
\* of the ordinary calls are unordered, and a request of an ordinary call
\* carries the token from before the exchange or the one newly granted.
C14_OldOrNewToken ==
    \A g \in Readers :
        last.req[g] # NoReq =>
            last.req[g].Authorization \in {"Bearer " \o t : t \in WholeTokens}

\* C14 amended: the write and the reads are unordered; a request of an
\* ordinary call carries the token from before the exchange, the one newly
\* granted or, the accesses being a data race on a string of two words, a
\* value torn between the two; it carries the one from before when the
\* exchange has failed, and the client ends with the granted token.
C14_OldNewOrTornToken ==
    /\ \A g \in Readers :
         last.req[g] # NoReq =>
             last.req[g].Authorization
                 \in {"Bearer " \o t : t \in WholeTokens \cup TornTokens}
    /\ last.x = "done" =>
         m.AccessToken = IF last.err = NilErr THEN last.at.access_token ELSE last.old

\* Both orders have happened at once: one ordinary call has sent the token
\* from before the exchange, the other the one it granted.
C14_Witness ==
    /\ last.x = "done" /\ last.old = "token" /\ last.at.access_token = "t1"
    /\ last.req["g1"] # NoReq /\ last.req["g1"].Authorization = "Bearer token"
    /\ last.req["g2"] # NoReq /\ last.req["g2"].Authorization = "Bearer t1"

-----------------------------------------------------------------------------
(* The file of an upload                                                     *)

\* The file of the last call, an upload, opened: the file system of the
\* tests opens anything, the disk what the environment lets it.
OpenSucceeds == last.pre.fs = "fakeFS" \/ last.io.open = "ok"

\* Every e1 among the events comes before every e2.
Precedes(ev, e1, e2) ==
    \A i \in DOMAIN ev, j \in DOMAIN ev : (ev[i] = e1 /\ ev[j] = e2) => i < j

\* C15: in an upload, the handle that a successful open gave is closed
\* exactly once, whether the copy fails or the encoding succeeds, and before
\* the request is handed to the HTTP client; when the open fails nothing is
\* closed and no request is sent.  Stated for either client; the one of type
\* medium violates it (SpecLegacy).
C15_HandleClosedBeforeSend ==
    (last # Idle /\ last.op = "UploadImage") =>
        IF OpenSucceeds
        THEN /\ CountOf(last.out.events, "open") = 1
             /\ CountOf(last.out.events, "close") = 1
             /\ Precedes(last.out.events, "open", "close")
             /\ Precedes(last.out.events, "close", "Do")
        ELSE /\ CountOf(last.out.events, "open") = 0
             /\ CountOf(last.out.events, "close") = 0
             /\ CountOf(last.out.events, "Do") = 0
             /\ last.out.req = NoReq

\* C15 for the client of medium.go, where it holds (Spec).
C15_Medium_HandleClosedBeforeSend ==
    C15_HandleClosedBeforeSend /\ "Timeout" \in DOMAIN m

\* An upload of the client of medium.go has closed its file and then sent
\* its request.
C15_Medium_Witness ==
    /\ last # Idle /\ last.op = "UploadImage" /\ last.pre.fs = "osFS"
    /\ last.out.events = <<"open", "close", "Do">>

-----------------------------------------------------------------------------
(* Failures of the encoding                                                  *)

\* C16: a payload that cannot be encoded (a JSON payload json.Marshal
\* refuses, a form payload that is no string, a file payload that is no
\* UploadOptions, a file that does not open or cannot be read, a format that
\* is none of the three) makes the call return an Error of code -1 with no
\* request sent and the client as it was; for an unknown format the message
\* names the format.
C16_EncodingFailureIsLocal ==
    (last # Idle /\ last.op \in {"request", "UploadImage"} /\ EncodingFails)
        => /\ last.ret.err.kind = "Error" /\ last.ret.err.Code = defaultCode
           /\ last.out.req = NoReq /\ CountOf(last.out.events, "Do") = 0
           /\ m = last.pre
           /\ (last.op = "request"
               /\ last.arg.format \notin {"", formatJSON, formatForm, formatFile})
                => last.ret.err.Message = "Unknown format: " \o last.arg.format

\* request has refused a format it does not know, and named it.
C16_Witness ==
    /\ last # Idle /\ last.op = "request" /\ last.arg.format = "xml"
    /\ last.pre.AccessToken = "token"
    /\ last.ret.err = Error("Unknown format: xml", defaultCode)
    /\ last.out.req = NoReq

-----------------------------------------------------------------------------
(* The body is parsed before the status is looked at                         *)

\* The Error for a body that json.Unmarshal cannot store in an envelope.
ParseError(kind) == Error("Could not parse response: " \o kind, defaultCode)

\* C17: the body is parsed as an envelope before the status is examined: a
\* body that is no JSON document, the empty body included, gives an Error of
\* code -1 whose message holds the parser's error, for every status, 2xx or
\* not, and no result; so does a JSON document that is no envelope.
C17_ParseBeforeStatus ==
    (GotResponse /\ ~IsEnvelope(last.io.net.body))
        => /\ last.ret.err =
                IF last.io.net.body.t = "invalid"
                THEN ParseError(SyntaxError.kind)
                ELSE ParseError(UnmarshalTypeError.kind)
           /\ last.out.val = Zero(TargetOf(last.op))

\* An empty body that came with status 500 has given the parse error.
C17_Witness ==
    /\ GotResponse /\ last.io.net.status = 500 /\ last.io.net.body = JInvalid("")
    /\ last.ret.err = ParseError(SyntaxError.kind)

-----------------------------------------------------------------------------
(* The requests of the endpoint operations                                   *)

\* The table of the interface: the method of each operation.
MethodOf(op) ==
    IF op \in {"GetUser", "GetUserPublications", "GetPublicationContributors"}
    THEN "GET" ELSE "POST"

\* The table of the interface: the path of each operation for its argument.
PathOf(op, arg) ==
    CASE op = "GetUser" -> IF arg = "" THEN "/v1/me" ELSE "/v1/" \o arg
      [] op = "GetUserPublications" -> "/v1/users/" \o arg \o "/publications"
      [] op = "GetPublicationContributors" -> "/v1/publications/" \o arg \o "/contributors"
      [] op = "CreatePost" -> "/v1/users/" \o arg.UserID \o "/posts"
      [] op = "UploadImage" -> "/v1/images"

\* C18: the request an endpoint operation sends has the method and the path
\* of the table, built from the identifier given (GetUser: /v1/me exactly
\* when userID is empty), and Accept application/json; CreatePost has the
\* user id in the path and nowhere in the body; an operation with no payload
\* and no format sends Content-Type application/json and the body null.
C18_RequestsFollowTheTable ==
    (last # Idle /\ last.op \in EndpointOps /\ last.out.req # NoReq) =>
        /\ last.out.req.method = MethodOf(last.op)
        /\ last.out.req.url = last.pre.Host \o PathOf(last.op, last.arg)
        /\ last.out.req.Accept = "application/json"
        /\ last.op = "CreatePost" =>
             /\ last.out.req.ContentType = "application/json"
             /\ last.out.req.body.t = "obj"
             /\ \A k \in DOMAIN last.out.req.body.v :
                  /\ k \notin {"userId", "userID", "UserID"}
                  /\ last.out.req.body.v[k] # JStr(last.arg.UserID)
        /\ MethodOf(last.op) = "GET" =>
             /\ last.out.req.ContentType = "application/json"
             /\ last.out.req.body = JNull

\* GetUser for a user has sent GET /v1/{userID} with the body null.
C18_Witness ==
    /\ last # Idle /\ last.op = "GetUser" /\ last.arg = "u1"
    /\ last.out.req # NoReq
    /\ last.out.req.url = "https://api.medium.com/v1/u1"
    /\ last.out.req.body = JNull

====
